---- MODULE Spec2Model ----
(***************************************************************************)
(* A model of the medical-bot backend (backend/app): the two process-wide  *)
(* singleton services (VectorStoreService, QAService), the application     *)
(* lifespan that starts them, and the request tasks that call them.        *)
(*                                                                         *)
(* Scheduling is asyncio's: one event loop, a task runs until it awaits a  *)
(* remote call.  VectorStoreService.initialize and QAService.initialize    *)
(* hold no remote await (every constructor they call is synchronous), so   *)
(* each is one atomic action; answer_query, similarity_search and          *)
(* add_documents suspend at their remote call and are two or three steps.  *)
(*                                                                         *)
(* A client handle is a natural number: 0 is None, and the n-th client of  *)
(* a kind that the process constructs has identity n.  A handle therefore  *)
(* also counts the constructions of its kind.                              *)
(***************************************************************************)
EXTENDS Integers, Sequences, FiniteSets, TLC

VARIABLES
    vs,       \* vector_store_service: its three handles and _initialized
    qa,       \* qa_service: _llm, _qa_chain and _initialized
    index,    \* the remote Pinecone index: number of persisted vectors
    settings, \* the settings object (read-only after Init)
    life,     \* the lifespan coroutine: its position and its locals
    tasks,    \* the request tasks: position, arguments, result
    pure      \* a function of the code applied to one input (SpecPure only)

vars == <<vs, qa, index, settings, life, tasks, pure>>

(***************************************************************************)
(* Bounds of the model.                                                    *)
(***************************************************************************)
MaxBuilds == 2      \* constructions of one kind of client that are followed
MaxIndex == 2       \* vectors the remote index can hold
MaxDocs == 1        \* documents the data directory can hold
max_documents == 2  \* settings.max_documents, scaled down

\* The callers of the services besides the lifespan coroutine.
Tasks == {"t1"}

\* Request arguments that are followed.
MaxSourcesValues == {1, 5}
SearchKValues == {1, 2}

Min(a, b) == IF a <= b THEN a ELSE b

(***************************************************************************)
(* Errors.  The services raise RuntimeError with a fixed message when an   *)
(* operation is called before initialize(); every other failure comes from *)
(* a collaborator (Pinecone, the embedding model, the LLM, the loaders).   *)
(***************************************************************************)
NoError == "none"
QANotInitialized == "QA service not initialized. Call initialize() first."
VSNotInitialized == "Vector store service not initialized. Call initialize() first."
ConstructionErrors == {"PineconeError", "EmbeddingsError", "VectorStoreError",
                       "LLMError", "ChainError"}
RetrievalErrors == {"RetrievalError"}
GenerationErrors == {"GenerationError"}
UpsertErrors == {"UpsertError"}

(***************************************************************************)
(* VectorStoreService                                                      *)
(***************************************************************************)
VSNew == [pinecone_client |-> 0, embeddings |-> 0, vector_store |-> 0,
          initialized |-> FALSE]

\* The error initialize() raises when its failAt-th constructor raises
\* (failAt = 0: none does).
VSInitError(failAt) ==
    CASE failAt = 0 -> NoError
      [] failAt = 1 -> "PineconeError"
      [] failAt = 2 -> "EmbeddingsError"
      [] OTHER      -> "VectorStoreError"

\* Variant: the flag is set before the clients are constructed.
VSInitializeFlagFirst(s, failAt) ==
    LET s1 == IF failAt = 1 THEN s
              ELSE [s EXCEPT !.pinecone_client = @ + 1]
        s2 == IF failAt \in {1, 2} THEN s1
              ELSE [s1 EXCEPT !.embeddings = @ + 1]
        s3 == IF failAt \in {1, 2, 3} THEN s2
              ELSE [s2 EXCEPT !.vector_store = @ + 1]
    IN  [s3 EXCEPT !.initialized = TRUE]

\* The service after initialize(): the handles are assigned one after the
\* other, the flag last; a constructor that raises leaves the rest untouched.
VSInitialize(s, failAt) ==
    LET s1 == IF failAt = 1 THEN s
              ELSE [s EXCEPT !.pinecone_client = @ + 1]
        s2 == IF failAt \in {1, 2} THEN s1
              ELSE [s1 EXCEPT !.embeddings = @ + 1]
        s3 == IF failAt \in {1, 2, 3} THEN s2
              ELSE [s2 EXCEPT !.vector_store = @ + 1]
    IN  IF failAt = 0 THEN [s3 EXCEPT !.initialized = TRUE] ELSE s3

\* Variant: the guard tests the Pinecone handle instead of the flag.
VSEnsureInitializedByHandle(s) ==
    IF s.pinecone_client = 0 THEN VSNotInitialized ELSE NoError

\* _ensure_initialized: the error it raises, NoError when it passes.
VSEnsureInitialized(s) ==
    IF ~s.initialized THEN VSNotInitialized ELSE NoError

\* initialize() can be followed: no handle is beyond the bound.
VSCanBuild(s) ==
    /\ s.pinecone_client < MaxBuilds
    /\ s.embeddings < MaxBuilds
    /\ s.vector_store < MaxBuilds

(***************************************************************************)
(* QAService                                                               *)
(***************************************************************************)
\* _qa_chain: the chain's identity and the k its retriever was created with.
NoChain == [id |-> 0, k |-> 0]

QANew == [llm |-> 0, qa_chain |-> NoChain, initialized |-> FALSE]

\* max_sources: ge=1, le=10.
MaxSourcesLimit == 10

\* Variant: the retriever is made for the largest max_sources of a request.
RetrieverKMaxSources == MaxSourcesLimit

RetrieverK == 4

\* Variant: the guard tests the LLM handle instead of the flag.
QAEnsureInitializedByHandle(q) ==
    IF q.llm = 0 THEN QANotInitialized ELSE NoError

\* _ensure_initialized: the error it raises, NoError when it passes.
QAEnsureInitialized(q) ==
    IF ~q.initialized THEN QANotInitialized ELSE NoError

\* QAService.initialize() initializes the vector store exactly when its flag
\* is not set.
QANeedsVS(s) == ~s.initialized

\* Variant: QAService.initialize() leaves the vector store as it is.
QAInitializeVSSkipped(s, vsFail) == s

\* The vector store after QAService.initialize().
QAInitializeVS(s, vsFail) ==
    IF QANeedsVS(s) THEN VSInitialize(s, vsFail) ELSE s

\* The error QAService.initialize() raises: the vector store's, or that of
\* its own qaFail-th constructor (1: the LLM, 2: the chain).
QAInitError(s, vsFail, qaFail) ==
    CASE QANeedsVS(s) /\ vsFail # 0 -> VSInitError(vsFail)
      [] qaFail = 1 -> "LLMError"
      [] qaFail = 2 -> "ChainError"
      [] OTHER      -> NoError

\* Variant: the handler of a failed initialize() clears the flag.
QAInitializeResetOnFailure(q, s, vsFail, qaFail) ==
    LET q1 == IF qaFail = 1 THEN q ELSE [q EXCEPT !.llm = @ + 1]
        q2 == IF qaFail \in {1, 2} THEN q1
              ELSE [q1 EXCEPT !.qa_chain =
                        [id |-> q.qa_chain.id + 1, k |-> RetrieverK]]
    IN  IF QANeedsVS(s) /\ vsFail # 0 THEN [q EXCEPT !.initialized = FALSE]
        ELSE IF qaFail = 0 THEN [q2 EXCEPT !.initialized = TRUE]
        ELSE [q2 EXCEPT !.initialized = FALSE]

\* Variant: the flag is set once the LLM is constructed, before the chain.
QAInitializeFlagEarly(q, s, vsFail, qaFail) ==
    LET q1 == IF qaFail = 1 THEN q ELSE [q EXCEPT !.llm = @ + 1]
        q2 == IF qaFail \in {1, 2} THEN q1
              ELSE [q1 EXCEPT !.qa_chain =
                        [id |-> q.qa_chain.id + 1, k |-> RetrieverK]]
    IN  IF QANeedsVS(s) /\ vsFail # 0 THEN q
        ELSE IF qaFail \in {0, 2} THEN [q2 EXCEPT !.initialized = TRUE]
        ELSE q2

\* The service after initialize(), s being the vector store as it was.
QAInitialize(q, s, vsFail, qaFail) ==
    LET q1 == IF qaFail = 1 THEN q ELSE [q EXCEPT !.llm = @ + 1]
        q2 == IF qaFail \in {1, 2} THEN q1
              ELSE [q1 EXCEPT !.qa_chain =
                        [id |-> q.qa_chain.id + 1, k |-> RetrieverK]]
    IN  IF QANeedsVS(s) /\ vsFail # 0 THEN q
        ELSE IF qaFail = 0 THEN [q2 EXCEPT !.initialized = TRUE]
        ELSE q2

QACanBuild(q) ==
    /\ q.llm < MaxBuilds
    /\ q.qa_chain.id < MaxBuilds

(***************************************************************************)
(* Request tasks                                                           *)
(***************************************************************************)
Idle == [op |-> "idle", via |-> "direct", pc |-> "idle",
         include_sources |-> FALSE, max_sources |-> 0, k |-> 0,
         calls |-> {}, upstream |-> NoError,
         outcome |-> "none", error |-> NoError, status |-> "none",
         http |-> 0, docs |-> <<>>, has_sources |-> FALSE, sources |-> <<>>,
         retrieval_working |-> "none", persisted |-> 0]

\* A task that has finished by raising err: it returns nothing.
Raised(r, err) ==
    [r EXCEPT !.pc = "done", !.outcome = "raised", !.error = err,
              !.docs = <<>>]

\* A task that has finished by returning.
Returned(r) ==
    [r EXCEPT !.pc = "done", !.outcome = "returned"]

\* A call of op that is starting.
Started(op) == [Idle EXCEPT !.op = op]

\* The first n passages of the index in the order retrieval returns them.
Passages(n) == [i \in 1..n |-> i]

(***************************************************************************)
(* Initial state: both services as constructed at import, the lifespan not *)
(* started, no request.  The remote index outlives the process, so it may  *)
(* already hold vectors.                                                   *)
(***************************************************************************)
\* No function is being applied.
NoPure == [fn |-> "none", done |-> FALSE, arg |-> <<>>, result |-> <<>>]

LifeNew == [pc |-> "startup", error |-> NoError, warning |-> NoError,
            order |-> <<>>, stats |-> "unqueried", loaded |-> "no",
            chunks |-> 0, add_called |-> FALSE]

Init ==
    /\ vs = VSNew
    /\ qa = QANew
    /\ index \in 0..MaxIndex
    /\ settings \in [skip_document_processing : BOOLEAN]
    /\ life = LifeNew
    /\ tasks = [t \in Tasks |-> Idle]
    /\ pure = NoPure

(***************************************************************************)
(* Direct calls of initialize() by a task.                                 *)
(***************************************************************************)
CallVSInitialize(t, failAt) ==
    /\ tasks[t].pc = "idle"
    /\ VSCanBuild(vs)
    /\ vs' = VSInitialize(vs, failAt)
    /\ tasks' = [tasks EXCEPT ![t] =
                    IF failAt = 0 THEN Returned(Started("vs_initialize"))
                    ELSE Raised(Started("vs_initialize"), VSInitError(failAt))]
    /\ UNCHANGED <<qa, index, settings, pure, life>>

CallQAInitialize(t, vsFail, qaFail) ==
    /\ tasks[t].pc = "idle"
    /\ QANeedsVS(vs) => VSCanBuild(vs)
    /\ ~QANeedsVS(vs) => vsFail = 0
    /\ QACanBuild(qa)
    /\ vs' = QAInitializeVS(vs, vsFail)
    /\ qa' = QAInitialize(qa, vs, vsFail, qaFail)
    /\ tasks' = [tasks EXCEPT ![t] =
                    LET r == [Started("qa_initialize") EXCEPT !.calls =
                                IF QANeedsVS(vs) THEN {"vs_initialize"}
                                ELSE {}]
                    IN  IF QAInitError(vs, vsFail, qaFail) = NoError
                        THEN Returned(r)
                        ELSE Raised(r, QAInitError(vs, vsFail, qaFail))]
    /\ UNCHANGED <<index, settings, pure, life>>

(***************************************************************************)
(* The lifespan coroutine (main.py): both initializations, then the        *)
(* best-effort ingestion of the data directory, then the yield after which *)
(* the application serves requests.                                        *)
(***************************************************************************)
NoStats == [some |-> FALSE, total_vector_count |-> 0]

\* get_index_stats(): None when the service is not initialized or the remote
\* call fails, else the index's vector count.
GetIndexStats(s, remoteOk, count) ==
    IF ~s.initialized \/ s.pinecone_client = 0 THEN NoStats
    ELSE IF remoteOk THEN [some |-> TRUE, total_vector_count |-> count]
    ELSE NoStats

\* Variant: stats that could not be read count as an index that holds data.
IndexHasDataOrUnknown(stats) ==
    ~stats.some \/ stats.total_vector_count > 0

\* The lifespan's test on the stats: the index already holds data.
IndexHasData(stats) == stats.some /\ stats.total_vector_count > 0

\* How the lifespan records the stats it got.
StatsSeen(stats) ==
    IF ~stats.some THEN "none"
    ELSE IF stats.total_vector_count > 0 THEN "nonzero" ELSE "zero"

\* process_directory's limit on the chunks it returns.
LimitChunks(n) == IF n > max_documents THEN max_documents ELSE n

\* Variant: the failure of an initialize() is logged and swallowed.
StartupSwallowed(l, err) == [l EXCEPT !.pc = "serving", !.warning = err]

\* The lifespan after an initialize() that raised err: the outer handler
\* logs and re-raises, the application does not start.
StartupFailed(l, err) == [l EXCEPT !.pc = "failed", !.error = err]

\* Variant: the failure of the ingestion reaches the outer handler.
IngestionPropagated(l, err) == [l EXCEPT !.pc = "failed", !.error = err]

\* The lifespan after the ingestion block raised err: the inner handler
\* logs a warning, and the lifespan goes on to the yield.
IngestionFailed(l, err) == [l EXCEPT !.pc = "serving", !.warning = err]

\* await vector_store_service.initialize()
LifeVSInitialize(failAt) ==
    /\ life.pc = "startup"
    /\ VSCanBuild(vs)
    /\ vs' = VSInitialize(vs, failAt)
    /\ life' = LET l == [life EXCEPT !.order = Append(@, "vs_initialize")]
               IN  IF failAt = 0 THEN [l EXCEPT !.pc = "vs_initialized"]
                   ELSE StartupFailed(l, VSInitError(failAt))
    /\ UNCHANGED <<qa, index, settings, pure, tasks>>

\* await qa_service.initialize()
LifeQAInitialize(vsFail, qaFail) ==
    /\ life.pc = "vs_initialized"
    /\ QANeedsVS(vs) => VSCanBuild(vs)
    /\ ~QANeedsVS(vs) => vsFail = 0
    /\ QACanBuild(qa)
    /\ vs' = QAInitializeVS(vs, vsFail)
    /\ qa' = QAInitialize(qa, vs, vsFail, qaFail)
    /\ life' = LET l == [life EXCEPT !.order = Append(@, "qa_initialize")]
                   err == QAInitError(vs, vsFail, qaFail)
               IN  IF err = NoError THEN [l EXCEPT !.pc = "qa_initialized"]
                   ELSE StartupFailed(l, err)
    /\ UNCHANGED <<index, settings, pure, tasks>>

\* settings.skip_document_processing is set: nothing is queried or loaded.
LifeSkip ==
    /\ life.pc = "qa_initialized"
    /\ settings.skip_document_processing
    /\ life' = [life EXCEPT !.pc = "serving"]
    /\ UNCHANGED <<vs, qa, index, settings, pure, tasks>>

\* process_directory: it raises when the directory cannot be loaded or
\* split, reports "no_documents" when the directory holds none, and else
\* returns the (limited) chunks with status "success".
ProcessDirectory(loadOk, ndocs, nchunks) ==
    IF ~loadOk THEN [status |-> "raised", chunks |-> 0]
    ELSE IF ndocs = 0 THEN [status |-> "no_documents", chunks |-> 0]
    ELSE [status |-> "success", chunks |-> LimitChunks(nchunks)]

\* The flag is not set: the stats are queried, and then either the index
\* holds data, or process_directory runs and raises, finds no document, or
\* returns chunks that add_documents is called with.  No step of this block
\* awaits a remote call before add_documents' upsert.
LifeIngest(remoteOk, loadOk, ndocs, nchunks) ==
    /\ life.pc = "qa_initialized"
    /\ ~settings.skip_document_processing
    /\ LET stats == GetIndexStats(vs, remoteOk, index)
           result == ProcessDirectory(loadOk, ndocs, nchunks)
           l0 == [life EXCEPT !.order = Append(@, "ingestion"),
                              !.stats = StatsSeen(stats)]
           l1 == [l0 EXCEPT !.loaded = result.status]
           l2 == [l1 EXCEPT !.add_called = TRUE]
       IN  life' =
             IF IndexHasData(stats) THEN [l0 EXCEPT !.pc = "serving"]
             ELSE IF result.status = "raised"
                  THEN IngestionFailed(l1, "LoadError")
             ELSE IF result.status # "success" THEN [l1 EXCEPT !.pc = "serving"]
             ELSE IF VSEnsureInitialized(vs) # NoError
                  THEN IngestionFailed(l2, VSEnsureInitialized(vs))
             ELSE [l2 EXCEPT !.pc = "adding", !.chunks = result.chunks]
    /\ UNCHANGED <<vs, qa, index, settings, pure, tasks>>

\* Variant: a failed upsert is undone.
IndexAfterAddRollback(count, persisted, e) ==
    IF e # NoError THEN count ELSE count + persisted

\* The index after aadd_documents persisted `persisted` entries and ended
\* with e: add_documents' handler logs and re-raises, it deletes nothing.
IndexAfterAdd(count, persisted, e) == count + persisted

\* The upsert of the lifespan's add_documents ends: it persisted the first
\* `persisted` chunks, and raised unless ok.
LifeAddDone(persisted, ok) ==
    /\ life.pc = "adding"
    /\ persisted <= life.chunks
    /\ ok => persisted = life.chunks
    /\ index + persisted <= MaxIndex
    /\ index' = IndexAfterAdd(index, persisted,
                              IF ok THEN NoError ELSE "UpsertError")
    /\ life' = LET l == [life EXCEPT !.chunks = 0]
               IN  IF ok THEN [l EXCEPT !.pc = "serving"]
                   ELSE IngestionFailed(l, "UpsertError")
    /\ UNCHANGED <<vs, qa, settings, pure, tasks>>

(***************************************************************************)
(* QAService.answer_query, called directly or through the /query endpoint. *)
(* The application serves an endpoint only after the lifespan's yield.     *)
(***************************************************************************)
Accepting == life.pc = "serving"

\* The endpoint's answer to its client: 200 with the service's response, or
\* 500 when the service raised; a direct caller gets no HTTP status.
HttpStatus(r) ==
    IF r.via # "http" THEN 0
    ELSE IF r.outcome = "raised" THEN 500 ELSE 200

Respond(r) == [r EXCEPT !.http = HttpStatus(r)]

\* relevance_score = None.
NoScore == "None"

\* The SourceDocument made of a retrieved document: its score is left unset.
\* (Its content is cut by TruncateContent, which SpecPure follows.)
SourceDocument(doc) == [doc |-> doc, relevance_score |-> NoScore]

\* Variant: the slice keeps the last max_sources documents.
ProcessSourceDocumentsLast(docs, max_sources) ==
    LET n == Min(Len(docs), max_sources)
    IN  [i \in 1..n |-> SourceDocument(docs[Len(docs) - n + i])]

\* _process_source_documents: the first max_sources documents, in order.
ProcessSourceDocuments(docs, max_sources) ==
    LET n == Min(Len(docs), max_sources)
    IN  [i \in 1..n |-> SourceDocument(docs[i])]

\* Variant: the handler raises an error of its own in place of e.
AnswerQueryWrap(e) == "Failed to process query"

\* What answer_query's handler raises for the failure e of its chain.
AnswerQueryReraise(e) == e

\* answer_query up to the chain's first remote call: the guard, then the
\* chain starts its retrieval.
AnswerQueryEnter(q, r) ==
    IF QAEnsureInitialized(q) # NoError
    THEN Respond(Raised(r, QAEnsureInitialized(q)))
    ELSE [r EXCEPT !.pc = "retrieving", !.k = q.qa_chain.k,
                   !.calls = {"retrieval"}]

\* The chain's retrieval ends: with the failure e, or with n documents, and
\* then the chain calls the LLM.
AnswerQueryRetrieved(r, e, n) ==
    IF e # NoError
    THEN Respond(Raised([r EXCEPT !.upstream = e], AnswerQueryReraise(e)))
    ELSE [r EXCEPT !.pc = "generating", !.docs = Passages(n),
                   !.calls = @ \cup {"generation"}]

\* The LLM call ends: with the failure e, or with the answer, to which the
\* sources are attached when they are asked for and any was retrieved.
AnswerQueryGenerated(r, e) ==
    IF e # NoError
    THEN Respond(Raised([r EXCEPT !.upstream = e], AnswerQueryReraise(e)))
    ELSE LET attach == r.include_sources /\ r.docs # <<>>
         IN  Respond(Returned(
               [r EXCEPT !.has_sources = attach,
                         !.sources = IF attach
                                     THEN ProcessSourceDocuments(r.docs, r.max_sources)
                                     ELSE <<>>]))

CallAnswerQuery(t, via, include_sources, max_sources) ==
    /\ tasks[t].pc = "idle"
    /\ via = "http" => Accepting
    /\ tasks' = [tasks EXCEPT ![t] =
                    AnswerQueryEnter(qa,
                        [Started("answer_query") EXCEPT
                            !.via = via,
                            !.include_sources = include_sources,
                            !.max_sources = max_sources])]
    /\ UNCHANGED <<vs, qa, index, settings, pure, life>>

AnswerQueryRetrieval(t, e, n) ==
    /\ tasks[t].op = "answer_query"
    /\ tasks[t].pc = "retrieving"
    /\ e = NoError => n <= Min(tasks[t].k, index)
    /\ e # NoError => n = 0
    /\ tasks' = [tasks EXCEPT ![t] = AnswerQueryRetrieved(tasks[t], e, n)]
    /\ UNCHANGED <<vs, qa, index, settings, pure, life>>

AnswerQueryGeneration(t, e) ==
    /\ tasks[t].op = "answer_query"
    /\ tasks[t].pc = "generating"
    /\ tasks' = [tasks EXCEPT ![t] = AnswerQueryGenerated(tasks[t], e)]
    /\ UNCHANGED <<vs, qa, index, settings, pure, life>>

(***************************************************************************)
(* VectorStoreService.similarity_search, and the two QAService operations  *)
(* that call it: get_similar_documents and health_check.                   *)
(***************************************************************************)
\* similarity_search up to its remote call.
SimilaritySearchEnter(s, r) ==
    IF VSEnsureInitialized(s) # NoError
    THEN Raised(r, VSEnsureInitialized(s))
    ELSE [r EXCEPT !.pc = "searching", !.calls = {"retrieval"}]

\* similarity_search's remote call ends; its handler re-raises a failure.
SimilaritySearchDone(r, e, n) ==
    IF e # NoError THEN Raised([r EXCEPT !.upstream = e], e)
    ELSE Returned([r EXCEPT !.docs = Passages(n)])

\* get_similar_documents up to the remote call.
GetSimilarDocumentsEnter(q, s, r) ==
    IF QAEnsureInitialized(q) # NoError
    THEN Raised(r, QAEnsureInitialized(q))
    ELSE SimilaritySearchEnter(s, r)

\* get_similar_documents after the search: the documents become sources.
GetSimilarDocumentsDone(r, e, n) ==
    LET d == SimilaritySearchDone(r, e, n)
    IN  IF d.outcome = "raised" THEN d
        ELSE [d EXCEPT !.has_sources = TRUE,
                       !.sources = ProcessSourceDocuments(d.docs, r.k)]

\* health_check up to the remote call: k = 1, no call when not initialized.
QAHealthCheckEnter(q, s, r) ==
    IF ~q.initialized
    THEN Returned([r EXCEPT !.status = "not_initialized"])
    ELSE LET d == SimilaritySearchEnter(s, [r EXCEPT !.k = 1])
         IN  IF d.outcome = "raised"
             THEN Returned([r EXCEPT !.k = 1, !.status = "unhealthy",
                                     !.error = d.error])
             ELSE d

\* "retrieval_working": "yes" if docs else "no".
RetrievalWorking(docs) == IF docs # <<>> THEN "yes" ELSE "no"

\* Variant: health_check lets the failure of its search through.
QAHealthCheckDoneRaises(r, e, n) ==
    LET d == SimilaritySearchDone(r, e, n)
    IN  IF d.outcome = "raised" THEN d
        ELSE [d EXCEPT !.status = "healthy",
                       !.retrieval_working = RetrievalWorking(d.docs)]

\* health_check after the search: every failure becomes a status.
QAHealthCheckDone(r, e, n) ==
    LET d == SimilaritySearchDone(r, e, n)
    IN  IF d.outcome = "raised"
        THEN Returned([r EXCEPT !.upstream = e, !.status = "unhealthy",
                                !.error = d.error])
        ELSE [d EXCEPT !.status = "healthy",
                       !.retrieval_working = RetrievalWorking(d.docs)]

CallSimilaritySearch(t, k) ==
    /\ tasks[t].pc = "idle"
    /\ tasks' = [tasks EXCEPT ![t] =
                    SimilaritySearchEnter(vs,
                        [Started("similarity_search") EXCEPT !.k = k])]
    /\ UNCHANGED <<vs, qa, index, settings, pure, life>>

CallGetSimilarDocuments(t, k) ==
    /\ tasks[t].pc = "idle"
    /\ tasks' = [tasks EXCEPT ![t] =
                    GetSimilarDocumentsEnter(qa, vs,
                        [Started("get_similar_documents") EXCEPT !.k = k])]
    /\ UNCHANGED <<vs, qa, index, settings, pure, life>>

CallQAHealthCheck(t) ==
    /\ tasks[t].pc = "idle"
    /\ tasks' = [tasks EXCEPT ![t] =
                    QAHealthCheckEnter(qa, vs, Started("qa_health_check"))]
    /\ UNCHANGED <<vs, qa, index, settings, pure, life>>

\* The remote search of a task ends.
SearchDone(t, e, n) ==
    /\ tasks[t].pc = "searching"
    /\ e = NoError => n <= Min(tasks[t].k, index)
    /\ e # NoError => n = 0
    /\ tasks' = [tasks EXCEPT ![t] =
                    CASE tasks[t].op = "get_similar_documents" ->
                            GetSimilarDocumentsDone(tasks[t], e, n)
                      [] tasks[t].op = "qa_health_check" ->
                            QAHealthCheckDone(tasks[t], e, n)
                      [] OTHER -> SimilaritySearchDone(tasks[t], e, n)]
    /\ UNCHANGED <<vs, qa, index, settings, pure, life>>

(***************************************************************************)
(* VectorStoreService.add_documents and get_retriever.                     *)
(***************************************************************************)
\* add_documents up to its remote call; k holds the number of documents.
AddDocumentsEnter(s, r) ==
    IF VSEnsureInitialized(s) # NoError
    THEN Raised(r, VSEnsureInitialized(s))
    ELSE [r EXCEPT !.pc = "upserting", !.calls = {"upsert"}]

\* get_retriever: the guard, then a retriever on the vector store; no
\* remote call.
GetRetriever(s, r) ==
    IF VSEnsureInitialized(s) # NoError
    THEN Raised(r, VSEnsureInitialized(s))
    ELSE Returned(r)

CallAddDocuments(t, n) ==
    /\ tasks[t].pc = "idle"
    /\ tasks' = [tasks EXCEPT ![t] =
                    AddDocumentsEnter(vs,
                        [Started("add_documents") EXCEPT !.k = n])]
    /\ UNCHANGED <<vs, qa, index, settings, pure, life>>

\* The upsert ends: it persisted the first `persisted` documents, and raised
\* e unless e is NoError.
AddDocumentsDone(t, persisted, e) ==
    /\ tasks[t].op = "add_documents"
    /\ tasks[t].pc = "upserting"
    /\ persisted <= tasks[t].k
    /\ e = NoError => persisted = tasks[t].k
    /\ index + persisted <= MaxIndex
    /\ index' = IndexAfterAdd(index, persisted, e)
    /\ tasks' = [tasks EXCEPT ![t] =
                    LET r == [tasks[t] EXCEPT !.persisted = persisted]
                    IN  IF e # NoError
                        THEN Raised([r EXCEPT !.upstream = e], e)
                        ELSE Returned(r)]
    /\ UNCHANGED <<vs, qa, settings, pure, life>>

CallGetRetriever(t) ==
    /\ tasks[t].pc = "idle"
    /\ tasks' = [tasks EXCEPT ![t] = GetRetriever(vs, Started("get_retriever"))]
    /\ UNCHANGED <<vs, qa, index, settings, pure, life>>

\* The caller takes the result; the task can serve another call.
Return(t) ==
    /\ tasks[t].pc = "done"
    /\ tasks' = [tasks EXCEPT ![t] = Idle]
    /\ UNCHANGED <<vs, qa, index, settings, pure, life>>

Next ==
    \/ \E f \in 0..3 : LifeVSInitialize(f)
    \/ \E f \in 0..3, g \in 0..2 : LifeQAInitialize(f, g)
    \/ LifeSkip
    \/ \E remoteOk \in BOOLEAN, loadOk \in BOOLEAN,
          ndocs \in 0..MaxDocs, nchunks \in 0..MaxIndex :
            LifeIngest(remoteOk, loadOk, ndocs, nchunks)
    \/ \E n \in 0..MaxIndex, ok \in BOOLEAN : LifeAddDone(n, ok)
    \/ \E t \in Tasks, f \in 0..3 : CallVSInitialize(t, f)
    \/ \E t \in Tasks, f \in 0..3, g \in 0..2 : CallQAInitialize(t, f, g)
    \/ \E t \in Tasks, via \in {"direct", "http"}, inc \in BOOLEAN,
          m \in MaxSourcesValues : CallAnswerQuery(t, via, inc, m)
    \/ \E t \in Tasks, e \in RetrievalErrors \cup {NoError},
          n \in 0..MaxIndex : AnswerQueryRetrieval(t, e, n)
    \/ \E t \in Tasks, e \in GenerationErrors \cup {NoError} :
            AnswerQueryGeneration(t, e)
    \/ \E t \in Tasks, k \in SearchKValues : CallSimilaritySearch(t, k)
    \/ \E t \in Tasks, k \in SearchKValues : CallGetSimilarDocuments(t, k)
    \/ \E t \in Tasks : CallQAHealthCheck(t)
    \/ \E t \in Tasks, e \in RetrievalErrors \cup {NoError},
          n \in 0..MaxIndex : SearchDone(t, e, n)
    \/ \E t \in Tasks, n \in 0..MaxIndex : CallAddDocuments(t, n)
    \/ \E t \in Tasks, n \in 0..MaxIndex, e \in UpsertErrors \cup {NoError} :
            AddDocumentsDone(t, n, e)
    \/ \E t \in Tasks : CallGetRetriever(t)
    \/ \E t \in Tasks : Return(t)

Spec == Init /\ [][Next]_vars

(***************************************************************************)
(* Properties                                                              *)
(***************************************************************************)
\* Task t starts a call of op in this step.
Calls(t, op) == tasks[t].pc = "idle" /\ tasks'[t].op = op

\* Task t has finished by raising err without having issued a remote call.
FailedFast(r, err) ==
    /\ r.pc = "done"
    /\ r.outcome = "raised"
    /\ r.error = err
    /\ r.calls = {}

\* C1: answer_query and get_similar_documents called while the QA service's
\* initialize() has not completed raise the QA service's own "not
\* initialized" error, and issue no retrieval and no generation.
C1_QANotInitialized ==
    [][\A t \in Tasks :
         ( /\ ~qa.initialized
           /\ Calls(t, "answer_query") \/ Calls(t, "get_similar_documents") )
         => FailedFast(tasks'[t], QANotInitialized)]_vars

\* C1 happens: answer_query is refused after an initialize() that failed.
C1_Witness ==
    \E t \in Tasks :
        /\ tasks[t].op = "answer_query"
        /\ FailedFast(tasks[t], QANotInitialized)
        /\ qa.llm > 0

\* C2: add_documents, similarity_search and get_retriever called while the
\* vector store's initialize() has not completed raise the vector store's
\* "not initialized" error, issue no remote call and change no state.
C2_VSNotInitialized ==
    [][\A t \in Tasks :
         ( /\ ~vs.initialized
           /\ \/ Calls(t, "add_documents")
              \/ Calls(t, "similarity_search")
              \/ Calls(t, "get_retriever") )
         => /\ FailedFast(tasks'[t], VSNotInitialized)
            /\ UNCHANGED <<vs, qa, index>>]_vars

\* C2 happens: add_documents is refused after an initialize() that failed.
C2_Witness ==
    \E t \in Tasks :
        /\ tasks[t].op = "add_documents"
        /\ FailedFast(tasks[t], VSNotInitialized)
        /\ vs.pinecone_client > 0

\* This step is a call of QAService.initialize(), by a task or the lifespan.
QAInitializeCalled ==
    \/ \E t \in Tasks : Calls(t, "qa_initialize")
    \/ life.pc = "vs_initialized" /\ life'.pc # life.pc

\* C3: QAService.initialize() called when the service is already
\* initialized is a no-op: no handle of either service changes.
C3_ReinitializeIsNoOp ==
    [][(qa.initialized /\ QAInitializeCalled) => UNCHANGED <<qa, vs>>]_vars

\* No constructor of the service has raised after an earlier one succeeded.
VSNoPartialBuild ==
    vs.pinecone_client = vs.embeddings /\ vs.embeddings = vs.vector_store
QANoPartialBuild == qa.llm = qa.qa_chain.id

\* C4: however the calls of initialize() interleave, each remote client is
\* constructed once.
C4_ClientsConstructedOnce ==
    /\ (vs.initialized /\ VSNoPartialBuild) => vs.vector_store = 1
    /\ (qa.initialized /\ QANoPartialBuild) => qa.qa_chain.id = 1

\* The handles of an initialized service are all set.
VSComplete ==
    vs.pinecone_client > 0 /\ vs.embeddings > 0 /\ vs.vector_store > 0
QAComplete == qa.llm > 0 /\ qa.qa_chain.id > 0 /\ qa.qa_chain.k = RetrieverK

C6_ReadyIsStable == [][qa.initialized => qa'.initialized]_vars

\* C6 happens: an initialize() has failed on the initialized service.
C6_Witness ==
    \E t \in Tasks :
        /\ qa.initialized
        /\ tasks[t].op = "qa_initialize"
        /\ tasks[t].outcome = "raised"

IsPrefix(a, b) == Len(a) <= Len(b) /\ a = SubSeq(b, 1, Len(a))

StartupOrder == <<"vs_initialize", "qa_initialize", "ingestion">>

\* C7: the lifespan calls VectorStoreService.initialize(), then
\* QAService.initialize(), then the ingestion, each once; the application
\* accepts requests only with both services initialized; an initialize()
\* that does not complete ends the startup with its error, for good.
C7_StartupOrder ==
    /\ [](IsPrefix(life.order, StartupOrder))
    /\ [](Accepting => vs.initialized /\ qa.initialized)
    /\ [](\A t \in Tasks : tasks[t].via = "http" => Accepting)
    /\ [][(life.pc = "startup" /\ life'.pc # life.pc) =>
            IF vs'.vector_store = vs.vector_store
            THEN life'.pc = "failed" /\ life'.error \in ConstructionErrors
            ELSE life'.pc = "vs_initialized"]_vars
    /\ [][(life.pc = "vs_initialized" /\ life'.pc # life.pc) =>
            IF qa'.qa_chain.id = qa.qa_chain.id
            THEN life'.pc = "failed" /\ life'.error \in ConstructionErrors
            ELSE life'.pc = "qa_initialized"]_vars
    /\ [][life.pc = "failed" => life'.pc = "failed"]_vars

\* C7 happens: the endpoint has answered after the whole startup sequence.
C7_Witness ==
    \E t \in Tasks :
        /\ tasks[t].via = "http"
        /\ tasks[t].http = 200
        /\ life.order = StartupOrder

\* C8: with the skip flag set nothing is queried or loaded; with stats that
\* report vectors nothing is loaded; with stats of zero vectors or none the
\* directory is loaded; add_documents is called exactly when documents
\* were found.
C8_IngestionDecision ==
    life.pc \in {"adding", "serving"} =>
        /\ settings.skip_document_processing =>
             life.stats = "unqueried" /\ life.loaded = "no"
        /\ ~settings.skip_document_processing => life.stats # "unqueried"
        /\ life.stats = "nonzero" => life.loaded = "no"
        /\ life.stats \in {"zero", "none"} => life.loaded # "no"
        /\ life.add_called <=> life.loaded = "success"

\* C8 happens: the stats could not be read and the documents were added.
C8_Witness ==
    /\ life.pc = "serving"
    /\ life.stats = "none"
    /\ life.add_called
    /\ life.warning = NoError

\* C9: a step of the ingestion, whatever fails in it, leaves the lifespan on
\* its way to the yield and both services initialized; the startup fails
\* only with the error of an initialize().
C9_IngestionIsBestEffort ==
    /\ [][(life.pc \in {"qa_initialized", "adding"} /\ life' # life) =>
            /\ life'.pc \in {"adding", "serving"}
            /\ life'.error = NoError
            /\ vs'.initialized /\ qa'.initialized]_vars
    /\ [](life.warning # NoError => Accepting)
    /\ [](life.pc = "failed" =>
            /\ life.error \in ConstructionErrors
            /\ life.order \in {<<"vs_initialize">>,
                               <<"vs_initialize", "qa_initialize">>})

\* C9 happens: the add failed at startup, and the endpoint answers.
C9_Witness ==
    \E t \in Tasks :
        /\ life.warning = "UpsertError"
        /\ tasks[t].via = "http"
        /\ tasks[t].http = 200

\* Task t's answer_query ends in this step.
AnswerQueryEnds(t) ==
    /\ tasks[t].op = "answer_query"
    /\ tasks[t].pc \in {"retrieving", "generating"}
    /\ tasks'[t].pc = "done"

\* C10: when the retrieval or the generation of answer_query fails, the
\* call raises that failure, returns no answer, and leaves the QA service
\* as it was, initialized.
C10_FailurePropagates ==
    /\ [](\A t \in Tasks :
            ( /\ tasks[t].op = "answer_query"
              /\ tasks[t].pc = "done"
              /\ tasks[t].upstream # NoError )
            => /\ tasks[t].outcome = "raised"
               /\ tasks[t].error = tasks[t].upstream
               /\ ~tasks[t].has_sources
               /\ tasks[t].sources = <<>>)
    /\ [][\A t \in Tasks :
            AnswerQueryEnds(t) => (qa' = qa /\ qa'.initialized)]_vars

\* C10 happens: the generation failed after a retrieval that found documents.
C10_Witness ==
    \E t \in Tasks :
        /\ tasks[t].op = "answer_query"
        /\ tasks[t].pc = "done"
        /\ tasks[t].upstream \in GenerationErrors
        /\ tasks[t].calls = {"retrieval", "generation"}

\* C11: answer_query returns sources exactly when they are asked for and a
\* passage was retrieved; they are then the first min(n, max_sources)
\* retrieved passages in retrieval order, each without a relevance score;
\* otherwise it returns none.
C11_SourcesAttached ==
    \A t \in Tasks :
        ( /\ tasks[t].op = "answer_query"
          /\ tasks[t].pc = "done"
          /\ tasks[t].outcome = "returned" )
        => LET r == tasks[t]
               n == Len(r.docs)
           IN  /\ r.has_sources <=> (r.include_sources /\ n > 0)
               /\ ~r.has_sources => r.sources = <<>>
               /\ r.has_sources =>
                     /\ Len(r.sources) = Min(n, r.max_sources)
                     /\ Len(r.sources) <= r.max_sources
                     /\ \A i \in 1..Len(r.sources) :
                           /\ r.sources[i].doc = r.docs[i]
                           /\ r.sources[i].relevance_score = NoScore

\* C11 happens: two passages were retrieved and one source was asked for.
C11_Witness ==
    \E t \in Tasks :
        /\ tasks[t].op = "answer_query"
        /\ tasks[t].outcome = "returned"
        /\ tasks[t].include_sources
        /\ Len(tasks[t].docs) = 2
        /\ tasks[t].max_sources = 1
        /\ Len(tasks[t].sources) = 1

\* C14: health_check of the QA service never raises; not initialized, it
\* returns "not_initialized" without a retrieval; initialized, it makes one
\* retrieval with k = 1 and returns "unhealthy" with the error of a failed
\* retrieval, and "healthy" otherwise, with retrieval_working "no" when the
\* retrieval found nothing.
C14_HealthCheckNeverRaises ==
    \A t \in Tasks :
        tasks[t].op = "qa_health_check" =>
          LET r == tasks[t]
          IN  /\ r.outcome # "raised"
              /\ r.pc = "searching" =>
                    r.k = 1 /\ r.calls = {"retrieval"} /\ qa.initialized
              /\ r.pc = "done" =>
                    /\ r.status \in {"not_initialized", "unhealthy", "healthy"}
                    /\ r.status = "not_initialized"
                         <=> (r.calls = {} /\ r.k = 0)
                    /\ r.status # "not_initialized" =>
                         /\ qa.initialized
                         /\ r.k = 1
                         /\ r.calls = {"retrieval"}
                         /\ r.status = "unhealthy"
                              <=> r.upstream \in RetrievalErrors
                         /\ r.status = "unhealthy" => r.error = r.upstream
                         /\ r.status = "healthy" =>
                              /\ r.upstream = NoError
                              /\ r.error = NoError
                              /\ r.retrieval_working =
                                    (IF Len(r.docs) = 0 THEN "no" ELSE "yes")

\* C14 happens: a failed retrieval was reported as "unhealthy".
C14_Witness ==
    \E t \in Tasks :
        /\ tasks[t].op = "qa_health_check"
        /\ tasks[t].pc = "done"
        /\ tasks[t].status = "unhealthy"
        /\ tasks[t].upstream \in RetrievalErrors

\* C14 happens too with an empty result reported as healthy.
C14_WitnessEmpty ==
    \E t \in Tasks :
        /\ tasks[t].op = "qa_health_check"
        /\ tasks[t].status = "healthy"
        /\ tasks[t].retrieval_working = "no"

\* C15: when the upsert of add_documents fails, the call raises the upsert's
\* error and the index keeps every entry persisted before the failure:
\* nothing is rolled back or deleted.
C15_NoRollback ==
    [][\A t \in Tasks :
         ( /\ tasks[t].op = "add_documents"
           /\ tasks[t].pc = "upserting"
           /\ tasks'[t].pc = "done"
           /\ tasks'[t].upstream # NoError )
         => /\ tasks'[t].outcome = "raised"
            /\ tasks'[t].error = tasks'[t].upstream
            /\ tasks'[t].persisted <= tasks[t].k
            /\ index' = index + tasks'[t].persisted
            /\ index' >= index]_vars

\* C15 happens: a failed add left a strict, non-empty part of its batch.
C15_Witness ==
    \E t \in Tasks :
        /\ tasks[t].op = "add_documents"
        /\ tasks[t].outcome = "raised"
        /\ tasks[t].error \in UpsertErrors
        /\ tasks[t].persisted > 0
        /\ tasks[t].persisted < tasks[t].k
        /\ index >= tasks[t].persisted

\* C19: the QA service is never initialized without the vector store being
\* initialized: QAService.initialize() that finds the vector store's flag
\* unset initializes it in the same call, before it sets its own flag, and
\* nothing ever clears the vector store's flag.
C19_QAReadyImpliesVSReady ==
    /\ [](qa.initialized => vs.initialized)
    /\ [][vs.initialized => vs'.initialized]_vars
    /\ [][\A t \in Tasks :
            (Calls(t, "qa_initialize") /\ ~vs.initialized /\ qa'.initialized)
            => /\ vs'.initialized
               /\ vs'.vector_store = vs.vector_store + 1
               /\ tasks'[t].calls = {"vs_initialize"}]_vars

\* C19 happens: QAService.initialize() has initialized both services.
C19_Witness ==
    \E t \in Tasks :
        /\ tasks[t].op = "qa_initialize"
        /\ tasks[t].outcome = "returned"
        /\ tasks[t].calls = {"vs_initialize"}
        /\ qa.initialized
        /\ vs.initialized

\* The errors of QAService.initialize()'s own constructors.
QAConstructionErrors == {"LLMError", "ChainError"}

\* C20: an initialize() called with the flag unset whose constructor fails
\* raises the constructor's error and leaves the flag unset, so the
\* service's guard still refuses every operation; when the failure is that
\* of a QA constructor, the vector store is initialized and the QA service
\* is not.
C20_FailedInitializeLeavesFlagUnset ==
    /\ [][\A t \in Tasks :
            (Calls(t, "vs_initialize") /\ ~vs.initialized)
            => IF vs'.initialized
               THEN tasks'[t].outcome = "returned"
               ELSE /\ tasks'[t].outcome = "raised"
                    /\ tasks'[t].error \in ConstructionErrors
                           \ QAConstructionErrors
                    /\ VSEnsureInitialized(vs') = VSNotInitialized]_vars
    /\ [][\A t \in Tasks :
            (Calls(t, "qa_initialize") /\ ~qa.initialized)
            => IF tasks'[t].outcome = "returned"
               THEN qa'.initialized
               ELSE /\ tasks'[t].outcome = "raised"
                    /\ tasks'[t].error \in ConstructionErrors
                    /\ ~qa'.initialized
                    /\ QAEnsureInitialized(qa') = QANotInitialized
                    /\ tasks'[t].error \in QAConstructionErrors
                         => vs'.initialized
                    /\ tasks'[t].error \notin QAConstructionErrors
                         => ~vs'.initialized]_vars
    /\ [][\A t \in Tasks :
            /\ ( /\ ~qa.initialized
                 /\ Calls(t, "answer_query")
                      \/ Calls(t, "get_similar_documents") )
               => FailedFast(tasks'[t], QANotInitialized)
            /\ ( /\ ~vs.initialized
                 /\ \/ Calls(t, "add_documents")
                    \/ Calls(t, "similarity_search")
                    \/ Calls(t, "get_retriever") )
               => FailedFast(tasks'[t], VSNotInitialized)]_vars

\* C20 happens: QAService.initialize() initialized the vector store and then
\* failed in a constructor of its own.
C20_Witness ==
    \E t \in Tasks :
        /\ tasks[t].op = "qa_initialize"
        /\ tasks[t].outcome = "raised"
        /\ tasks[t].error \in QAConstructionErrors
        /\ tasks[t].calls = {"vs_initialize"}
        /\ vs.initialized
        /\ ~qa.initialized

(***************************************************************************)
(* Functions of the code that depend on their arguments only.  SpecPure    *)
(* draws one function and one argument, and applies the function once:     *)
(* pure.arg is the argument, pure.result the value returned.               *)
(***************************************************************************)
Applied(fn) == pure.fn = fn /\ pure.done

Apply(fn, result) ==
    /\ pure.fn = fn
    /\ ~pure.done
    /\ pure' = [pure EXCEPT !.done = TRUE, !.result = result]
    /\ UNCHANGED <<vs, qa, index, settings, life, tasks>>

\* The longest page content followed.
MaxContentLen == 503

\* len(content) > 500, content[:500]
ContentLimit == 500

Ellipsis == <<".", ".", ".">>

\* A page content of length len: a string of "a" with "." at every m-th
\* place.
Content(len, m) == [i \in 1..len |-> IF i % m = 0 THEN "." ELSE "a"]

ContentPatterns == 1..3

\* Variant: a content of exactly 500 characters is cut too.
TruncateContentFrom500(content) ==
    IF Len(content) >= ContentLimit
    THEN SubSeq(content, 1, ContentLimit) \o Ellipsis
    ELSE content

\* _process_source_documents: the content of a source, cut for display.
TruncateContent(content) ==
    IF Len(content) > ContentLimit
    THEN SubSeq(content, 1, ContentLimit) \o Ellipsis
    ELSE content

TruncateInputs ==
    { [fn |-> "truncate", done |-> FALSE, arg |-> Content(len, m),
       result |-> <<>>] : len \in 0..MaxContentLen, m \in ContentPatterns }

ApplyTruncate == Apply("truncate", TruncateContent(pure.arg))

\* The similarity scores the store reports, as levels: a cosine similarity
\* lies between -1 and 1.
ScoreLevels == {-1, 0, 1}

\* score_threshold: Optional[float] = None
NoThreshold == [supplied |-> FALSE, value |-> 0]
Thresholds ==
    {NoThreshold} \cup {[supplied |-> TRUE, value |-> v] : v \in ScoreLevels}

\* `if score_threshold:` is false for None and for 0.0.
ThresholdApplies(threshold) == threshold.supplied /\ threshold.value # 0

\* The answers of the remote store to a search with k: at most k entries,
\* best score first.
RemoteHits(k) ==
    UNION { { h \in [1..n -> [doc : 1..n, score : ScoreLevels]] :
                /\ \A i \in 1..n : h[i].doc = i
                /\ \A i \in 1..(n - 1) : h[i].score >= h[i + 1].score } :
            n \in 0..k }

\* similarity_search after the remote call answered hits: the documents it
\* returns (each shown with the score the store gave it).
SimilaritySearchDocs(hits, threshold) ==
    IF ThresholdApplies(threshold)
    THEN SelectSeq(hits, LAMBDA h : h.score >= threshold.value)
    ELSE hits

SearchInputs ==
    UNION { { [fn |-> "similarity_search", done |-> FALSE,
               arg |-> [k |-> k, threshold |-> th, hits |-> h],
               result |-> <<>>] :
              th \in Thresholds, h \in RemoteHits(k) } :
            k \in SearchKValues }

ApplySimilaritySearch ==
    /\ pure.fn = "similarity_search"
    /\ Apply("similarity_search",
             SimilaritySearchDocs(pure.arg.hits, pure.arg.threshold))

\* VectorStoreService.health_check: its "status"; statsOk tells whether
\* describe_index_stats() answers.
VSHealthCheck(s, statsOk) ==
    IF ~s.initialized THEN "not_initialized"
    ELSE IF statsOk THEN "healthy"
    ELSE "unhealthy"

\* QAService.health_check: its "status", the search ending with e and n
\* documents.
QAHealthStatus(q, s, e, n) ==
    LET r == QAHealthCheckEnter(q, s, Started("qa_health_check"))
    IN  IF r.pc = "searching" THEN QAHealthCheckDone(r, e, n).status
        ELSE r.status

\* The services dictionary of the /health endpoint.
HealthServices(vsStatus, qaStatus) ==
    [vector_store |-> vsStatus,
     qa_service |-> qaStatus,
     embeddings |-> IF vsStatus = "healthy" THEN "healthy" ELSE "unhealthy"]

\* Variant: one healthy service is enough.
OverallStatusAny(services) ==
    IF \E name \in DOMAIN services : services[name] = "healthy"
    THEN "healthy" ELSE "degraded"

\* overall_status = "healthy" if all(...) else "degraded"
OverallStatus(services) ==
    IF \A name \in DOMAIN services : services[name] = "healthy"
    THEN "healthy" ELSE "degraded"

\* The /health endpoint: both health checks, then the response.
HealthEndpoint(s, q, statsOk, e, n) ==
    LET services == HealthServices(VSHealthCheck(s, statsOk),
                                   QAHealthStatus(q, s, e, n))
    IN  [status |-> OverallStatus(services), services |-> services]

\* The services as initialize() calls, completed or failed, can leave them.
ServiceStates ==
    UNION { { [vs |-> VSInitialize(VSNew, f), qa |-> q] :
              q \in IF VSInitialize(VSNew, f).initialized
                    THEN {QANew} \cup
                         { QAInitialize(QANew, VSInitialize(VSNew, f), 0, g) :
                           g \in 0..2 }
                    ELSE {QANew} } :
            f \in 0..3 }

HealthInputs ==
    { [fn |-> "health", done |-> FALSE,
       arg |-> [vs |-> st.vs, qa |-> st.qa, statsOk |-> ok,
                e |-> e, n |-> IF e = NoError THEN n ELSE 0],
       result |-> <<>>] :
      st \in ServiceStates, ok \in BOOLEAN,
      e \in RetrievalErrors \cup {NoError}, n \in 0..1 }

ApplyHealth ==
    /\ pure.fn = "health"
    /\ Apply("health",
             HealthEndpoint(pure.arg.vs, pure.arg.qa, pure.arg.statsOk,
                            pure.arg.e, pure.arg.n))

\* The most documents in a batch, and the most chunks of one document.
MaxBatch == 3
MaxChunksPerDoc == 2

\* text_splitter.split_documents(documents): the chunks of the first
\* document in order, then those of the second, and so on; counts[d] is the
\* number of chunks of document d, position the place of a chunk in its
\* own document, counted from 0.
RECURSIVE TextSplitterChunks(_, _)
TextSplitterChunks(counts, d) ==
    IF d > Len(counts) THEN <<>>
    ELSE [j \in 1..counts[d] |-> [source |-> d, position |-> j - 1]]
         \o TextSplitterChunks(counts, d + 1)

\* Variant: the index is counted within each document.
SplitDocumentsPerDocument(counts) ==
    LET chunks == TextSplitterChunks(counts, 1)
    IN  [i \in 1..Len(chunks) |->
            [source |-> chunks[i].source,
             position |-> chunks[i].position,
             chunk_id |-> i,
             chunk_index |-> chunks[i].position]]

\* split_documents: every chunk gets a fresh chunk_id (the i-th uuid4) and
\* chunk_index = i from enumerate(chunks).
SplitDocuments(counts) ==
    LET chunks == TextSplitterChunks(counts, 1)
    IN  [i \in 1..Len(chunks) |->
            [source |-> chunks[i].source,
             position |-> chunks[i].position,
             chunk_id |-> i,
             chunk_index |-> i - 1]]

SplitInputs ==
    UNION { { [fn |-> "split_documents", done |-> FALSE, arg |-> counts,
               result |-> <<>>] :
              counts \in [1..n -> 0..MaxChunksPerDoc] } :
            n \in 1..MaxBatch }

ApplySplitDocuments ==
    /\ pure.fn = "split_documents"
    /\ Apply("split_documents", SplitDocuments(pure.arg))

\* The most entries of the index in an answered query.
MaxStored == 6

\* The QA service after a first initialize() that completed.
QAReady == QAInitialize(QANew, VSNew, 0, 0)

\* answer_query on the initialized service, its chain retrieving n documents
\* and its LLM answering.
AnswerQuery(q, include_sources, max_sources, n) ==
    LET r == [Started("answer_query") EXCEPT
                 !.include_sources = include_sources,
                 !.max_sources = max_sources]
    IN  AnswerQueryGenerated(
            AnswerQueryRetrieved(AnswerQueryEnter(q, r), NoError, n),
            NoError)

\* The requests, with an index of `stored` entries of which the chain's
\* retriever, made with k, finds n.
AnswerInputs ==
    UNION { { [fn |-> "answer_query", done |-> FALSE,
               arg |-> [stored |-> stored, n |-> n,
                        include_sources |-> inc, max_sources |-> m],
               result |-> <<>>] :
              n \in 0..Min(QAReady.qa_chain.k, stored),
              inc \in BOOLEAN, m \in 1..MaxSourcesLimit } :
            stored \in 0..MaxStored }

ApplyAnswerQuery ==
    /\ pure.fn = "answer_query"
    /\ Apply("answer_query",
             AnswerQuery(QAReady, pure.arg.include_sources,
                         pure.arg.max_sources, pure.arg.n))

InitPure ==
    /\ vs = VSNew
    /\ qa = QANew
    /\ index = 0
    /\ settings = [skip_document_processing |-> FALSE]
    /\ life = LifeNew
    /\ tasks = [t \in Tasks |-> Idle]
    /\ pure \in TruncateInputs \cup SearchInputs \cup HealthInputs
                \cup SplitInputs \cup AnswerInputs

NextPure ==
    \/ ApplyTruncate
    \/ ApplySimilaritySearch
    \/ ApplyHealth
    \/ ApplySplitDocuments
    \/ ApplyAnswerQuery

SpecPure == InitPure /\ [][NextPure]_vars

\* C12: a content of at most 500 characters is returned as it is, and a
\* second application changes nothing; a longer content is returned as its
\* first 500 characters followed by "...".
C12_Truncation ==
    Applied("truncate") =>
        LET content == pure.arg
            out == pure.result
        IN  /\ Len(content) <= 500 =>
                  /\ out = content
                  /\ TruncateContent(out) = out
            /\ Len(content) > 500 =>
                  /\ Len(out) = 503
                  /\ SubSeq(out, 1, 500) = SubSeq(content, 1, 500)
                  /\ SubSeq(out, 501, 503) = <<".", ".", ".">>

\* C12 happens: a content of 501 characters has been cut.
C12_Witness ==
    /\ Applied("truncate")
    /\ Len(pure.arg) = 501
    /\ Len(pure.result) = 503

\* C12 happens too at the limit: 500 characters are kept whole.
C12_WitnessAtLimit ==
    /\ Applied("truncate")
    /\ Len(pure.arg) = 500
    /\ pure.result = pure.arg

\* C13: a search with k returns at most k passages, get_similar_documents
\* makes at most k sources of them, and when a score threshold is supplied
\* every passage returned has a score of at least the threshold.
C13_AtMostKAboveThreshold ==
    Applied("similarity_search") =>
        LET a == pure.arg
            docs == pure.result
        IN  /\ Len(docs) <= a.k
            /\ Len(ProcessSourceDocuments(docs, a.k)) <= a.k
            /\ a.threshold.supplied =>
                  \A i \in 1..Len(docs) : docs[i].score >= a.threshold.value

\* A supplied threshold other than 0.0 is honoured (what the code does do).
C13_NonZeroThresholdHonoured ==
    Applied("similarity_search") =>
        LET a == pure.arg
            docs == pure.result
        IN  /\ Len(docs) <= a.k
            /\ (a.threshold.supplied /\ a.threshold.value # 0) =>
                  \A i \in 1..Len(docs) : docs[i].score >= a.threshold.value

\* C16: the /health endpoint reports "healthy" exactly when the vector
\* store's and the QA service's health checks both report "healthy", and
\* "degraded" in every other case.
C16_OverallHealth ==
    Applied("health") =>
        LET a == pure.arg
            r == pure.result
            vsStatus == VSHealthCheck(a.vs, a.statsOk)
            qaStatus == QAHealthStatus(a.qa, a.vs, a.e, a.n)
        IN  /\ r.services.vector_store = vsStatus
            /\ r.services.qa_service = qaStatus
            /\ r.status = "healthy"
                 <=> (vsStatus = "healthy" /\ qaStatus = "healthy")
            /\ r.status # "healthy" => r.status = "degraded"

\* C16 happens: a healthy vector store and an unhealthy QA service give
\* "degraded".
C16_Witness ==
    /\ Applied("health")
    /\ pure.result.services.vector_store = "healthy"
    /\ pure.result.services.qa_service = "unhealthy"
    /\ pure.result.status = "degraded"

\* C16 happens too with a service not initialized, and with both healthy.
C16_WitnessNotInitialized ==
    /\ Applied("health")
    /\ pure.result.services.vector_store = "healthy"
    /\ pure.result.services.qa_service = "not_initialized"
    /\ pure.result.status = "degraded"

C16_WitnessHealthy ==
    /\ Applied("health")
    /\ pure.result.status = "healthy"

\* C18: split_documents gives every chunk of a batch the chunk_index of its
\* place in its own document, counted from 0: the index starts again at 0
\* with every document.
C18_ChunkIndexPerDocument ==
    Applied("split_documents") =>
        \A i \in 1..Len(pure.result) :
            pure.result[i].chunk_index = pure.result[i].position

\* C18 as amended: split_documents gives every chunk of a batch the
\* chunk_index of its place in the whole batch, counted from 0: the indices
\* are unique in the batch, follow the original order within each document,
\* and are the places in the document only for a batch of one document.
C18_ChunkIndexPerBatch ==
    Applied("split_documents") =>
        LET chunks == pure.result
        IN  /\ \A i \in 1..Len(chunks) : chunks[i].chunk_index = i - 1
            /\ \A i, j \in 1..Len(chunks) :
                  /\ i # j => chunks[i].chunk_index # chunks[j].chunk_index
                  /\ ( /\ chunks[i].source = chunks[j].source
                       /\ chunks[i].position < chunks[j].position )
                     => chunks[i].chunk_index < chunks[j].chunk_index
            /\ Len(pure.arg) = 1 =>
                  \A i \in 1..Len(chunks) :
                      chunks[i].chunk_index = chunks[i].position

\* C18 happens: the first chunk of a second document has an index that is
\* not 0.
C18_Witness ==
    /\ Applied("split_documents")
    /\ \E i \in 1..Len(pure.result) :
          /\ pure.result[i].source = 2
          /\ pure.result[i].position = 0
          /\ pure.result[i].chunk_index = 2

\* C21: the chain retrieves with the k = 4 of initialize() whatever the
\* request asks, so answer_query returns at most min(4, max_sources)
\* sources for every max_sources from 1 to 10, never more than 4.
C21_AtMostFourSources ==
    Applied("answer_query") =>
        LET r == pure.result
        IN  /\ r.outcome = "returned"
            /\ r.k = 4
            /\ Len(r.docs) <= 4
            /\ Len(r.sources) <= Min(4, r.max_sources)
            /\ Len(r.sources) <= 4

\* C21 happens: 10 sources are asked for, the index holds more than 4
\* entries and 4 sources are returned.
C21_Witness ==
    /\ Applied("answer_query")
    /\ pure.arg.max_sources = 10
    /\ pure.arg.stored > 4
    /\ pure.result.include_sources
    /\ Len(pure.result.sources) = 4

====
